---- MODULE Spec2Model ----
(***************************************************************************)
(* Model of bot/code_coverage_bot/phabricator.py: the covdir path lookup    *)
(* (_find_coverage), the annotate-keyed coverage map (_build_coverage_map,  *)
(* _apply_coverage_map) and the per-changeset aggregation (generate).       *)
(*                                                                         *)
(* Python strings that the code indexes or splits (paths, the coverage      *)
(* string sent to Phabricator) are sequences of one-character strings.      *)
(***************************************************************************)
EXTENDS Integers, Sequences, FiniteSets, TLC

VARIABLES
    annotate,            \* argument of _build_coverage_map / _apply_coverage_map
    coverage_record,     \* argument of _build_coverage_map
    coverage_map,        \* result of _build_coverage_map, argument of _apply_coverage_map
    phab_coverage_data,  \* result of _apply_coverage_map
    mpc,                 \* position of the map calls
    report,              \* the covdir report
    path,                \* argument of _find_coverage
    found,               \* outcome of _find_coverage
    fpc,                 \* position of the lookup call
    changesets,          \* argument of generate
    hgmo_server,         \* answers of hgmo_server.get_annotate, by (node, path)
    results,             \* the dict generate accumulates
    ci,                  \* index of the changeset being processed
    fi,                  \* index of the next file of that changeset
    looked,              \* indices of the changesets whose files were iterated
    pc                   \* position of generate

vars == << annotate, coverage_record, coverage_map, phab_coverage_data, mpc,
           report, path, found, fpc,
           changesets, hgmo_server, results, ci, fi, looked, pc >>

mapVars == << annotate, coverage_record, coverage_map, phab_coverage_data, mpc >>
findVars == << path, found, fpc >>
genVars == << changesets, hgmo_server, results, ci, fi, looked, pc >>

----------------------------------------------------------------------------
(* Bounds of the explored inputs.                                          *)

\* Longest annotate sequence and coverage record given to the map functions.
MaxLen == 2

\* Longest path (in characters) given to _find_coverage on its own.
MaxPathLen == 3

\* Changeset identifiers ("node" of the annotate data and of a changeset).
Nodes == {"r1", "r2"}

\* "targetline" values: the line number a line had when it was introduced.
OrigLines == {1, 2}

\* Raw coverage counts: -1 is a non-executable line, 0 is not executed,
\* a positive value is an execution count; -2 stands for the other negatives.
Counts == {-2, -1, 0, 1}

\* The empty dict.
EmptyDict == [k \in {} |-> 0]

\* dict[key] = value, on a dict held as a function.
DictSet(dict, key, value) == [k \in DOMAIN dict \cup {key} |-> IF k = key THEN value ELSE dict[k]]

SeqsUpTo(S, n) == UNION {[1..k -> S] : k \in 0..n}

\* One line of annotate data: its line number at the annotated changeset
\* (from 1), the changeset that introduced it and its line number there.
AnnotateLines == [lineno : 1..MaxLen, node : Nodes, targetline : OrigLines]

\* Annotate data of one file at one changeset: every line of the file once,
\* and (node, targetline) identifying a line uniquely.
IsAnnotate(a) ==
    \A x, y \in 1..Len(a) :
        x # y => /\ a[x].lineno # a[y].lineno
                 /\ << a[x].node, a[x].targetline >> # << a[y].node, a[y].targetline >>

Annotates == {a \in SeqsUpTo(AnnotateLines, MaxLen) : IsAnnotate(a)}

CoverageRecords == SeqsUpTo(Counts, MaxLen)

----------------------------------------------------------------------------
(* _build_coverage_map and _apply_coverage_map                              *)

\* Python's seq[i]: a negative index counts from the end, an index outside
\* -len..len-1 raises IndexError.
PyIndexError(seq, i) == i >= Len(seq) \/ i < -Len(seq)

PyIndex(seq, i) == IF i >= 0 THEN seq[i + 1] ELSE seq[Len(seq) + i + 1]

\* The loop without the comparison of lineno with the record's length.
LinenoAlwaysInRecord(lineno, record) == TRUE

\* if lineno < len(coverage_record)
LinenoInRecord(lineno, record) == lineno < Len(record)

\* An iteration that keys the map by the line number at the build changeset.
BuildStepByLineno(cmap, data, record) ==
    LET lineno == data.lineno - 1
    IN  IF LinenoInRecord(lineno, record)
        THEN DictSet(cmap, << data.node, data.lineno >>, PyIndex(record, lineno))
        ELSE cmap

\* One iteration of the loop of _build_coverage_map.
BuildStep(cmap, data, record) ==
    LET lineno == data.lineno - 1
        orig_line == data.targetline
        orig_changeset == data.node
    IN  IF LinenoInRecord(lineno, record)
        THEN DictSet(cmap, << orig_changeset, orig_line >>, PyIndex(record, lineno))
        ELSE cmap

\* Whether coverage_record[lineno] raises in some iteration of the loop.
BuildRaises(a, record) ==
    \E k \in 1..Len(a) :
        /\ LinenoInRecord(a[k].lineno - 1, record)
        /\ PyIndexError(record, a[k].lineno - 1)

RECURSIVE BuildFrom(_, _, _, _)
BuildFrom(cmap, a, record, k) ==
    IF k > Len(a) THEN cmap
    ELSE BuildFrom(BuildStep(cmap, a[k], record), a, record, k + 1)

\* The dict _build_coverage_map returns when no iteration raises.
_build_coverage_map(a, record) == BuildFrom(EmptyDict, a, record, 1)

\* The symbols with "count >= 0" for "count > 0".
SymbolZeroCovered(data, cmap) ==
    LET key == << data.node, data.targetline >>
    IN  IF key \in DOMAIN cmap
        THEN IF cmap[key] = -1 THEN "N" ELSE IF cmap[key] >= 0 THEN "C" ELSE "U"
        ELSE "X"

\* The symbol _apply_coverage_map appends for one line of annotate data.
Symbol(data, cmap) ==
    LET key == << data.node, data.targetline >>
    IN  IF key \in DOMAIN cmap
        THEN LET count == cmap[key]
             IN  IF count = -1 THEN "N" ELSE IF count > 0 THEN "C" ELSE "U"
        ELSE "X"

\* The loop without its else branch: nothing appended for an unknown line.
ApplySkipsUnknown(a, cmap) ==
    LET RECURSIVE Go(_)
        Go(k) == IF k > Len(a) THEN << >>
                 ELSE IF << a[k].node, a[k].targetline >> \in DOMAIN cmap
                      THEN << Symbol(a[k], cmap) >> \o Go(k + 1)
                      ELSE Go(k + 1)
    IN  Go(1)

\* The string _apply_coverage_map returns, one symbol per line, in order.
_apply_coverage_map(a, cmap) == [k \in 1..Len(a) |-> Symbol(a[k], cmap)]

----------------------------------------------------------------------------
(* The map functions on their own: any annotate data and coverage record   *)
(* for the build changeset, any annotate data for the changeset of interest *)

MapIdle ==
    /\ annotate = << >> /\ coverage_record = << >> /\ coverage_map = EmptyDict
    /\ phab_coverage_data = << >> /\ mpc = "idle"

FindIdle == path = << >> /\ found = [tag |-> "None", value |-> << >>] /\ fpc = "idle"

GenIdle ==
    /\ changesets = << >> /\ hgmo_server = EmptyDict /\ results = EmptyDict
    /\ ci = 0 /\ fi = 0 /\ looked = {} /\ pc = "idle"

InitMap ==
    /\ annotate \in Annotates
    /\ coverage_record \in CoverageRecords
    /\ coverage_map = EmptyDict
    /\ phab_coverage_data = << >>
    /\ mpc = "start"
    /\ report = EmptyDict
    /\ FindIdle
    /\ GenIdle

\* coverage_map = self._build_coverage_map(build_annotate, coverage_record)
BuildMap ==
    /\ mpc = "start"
    /\ IF BuildRaises(annotate, coverage_record)
       THEN mpc' = "IndexError" /\ UNCHANGED coverage_map
       ELSE /\ coverage_map' = _build_coverage_map(annotate, coverage_record)
            /\ mpc' = "built"
    /\ UNCHANGED << annotate, coverage_record, phab_coverage_data >>
    /\ UNCHANGED << report, findVars, genVars >>

\* self._apply_coverage_map(build_annotate, coverage_map): the changeset of
\* interest is the build changeset.
ApplySame ==
    /\ mpc = "built"
    /\ phab_coverage_data' = _apply_coverage_map(annotate, coverage_map)
    /\ mpc' = "same"
    /\ UNCHANGED << annotate, coverage_record, coverage_map >>
    /\ UNCHANGED << report, findVars, genVars >>

\* self._apply_coverage_map(annotate, coverage_map) for the annotate data of
\* another changeset; the build changeset's arguments are no longer held.
ApplyOther ==
    /\ mpc = "built"
    /\ \E a \in Annotates :
        /\ annotate' = a
        /\ phab_coverage_data' = _apply_coverage_map(a, coverage_map)
    /\ coverage_record' = << >>
    /\ mpc' = "other"
    /\ UNCHANGED coverage_map
    /\ UNCHANGED << report, findVars, genVars >>

NextMap == BuildMap \/ ApplySame \/ ApplyOther

SpecMap == InitMap /\ [][NextMap]_vars

----------------------------------------------------------------------------
(* _find_coverage                                                           *)

\* Characters of the paths looked up: the separator and three names.
PathChars == {"/", "d", "f", "g"}

\* A covdir report: a directory node holds "children" by name, a file node
\* holds "coverage", the raw count of each of its lines.
FileNode(counts) == [coverage |-> counts]

DirNode(kids) == [children |-> kids]

ReportA ==
    DirNode((<< "f" >> :> FileNode(<< -1, 1, 0 >>))
         @@ (<< "d" >> :> DirNode(<< "g" >> :> FileNode(<< 1, 0 >>))))

ReportB ==
    DirNode((<< "g" >> :> FileNode(<< >>))
         @@ (<< "d" >> :> DirNode(<< "f" >> :> FileNode(<< 0 >>))))

Reports == {ReportA, ReportB}

\* path.split("/"): the pieces between the separators, empty ones included.
RECURSIVE Split(_)
Split(p) ==
    IF \A k \in 1..Len(p) : p[k] # "/" THEN << p >>
    ELSE LET k == CHOOSE x \in 1..Len(p) : p[x] = "/" /\ \A y \in 1..(x - 1) : p[y] # "/"
         IN  << SubSeq(p, 1, k - 1) >> \o Split(SubSeq(p, k + 1, Len(p)))

NonEmpty(part) == part # << >>

\* filter(None, parts)
Parts(p) == SelectSeq(Split(p), NonEmpty)

\* The outcomes of _find_coverage: the coverage it returns, None, or the
\* KeyError of a missing "children" or "coverage" key.
Returned(counts) == [tag |-> "coverage", value |-> counts]

ReturnedNone == [tag |-> "None", value |-> << >>]

RaisedKeyError == [tag |-> "KeyError", value |-> << >>]

\* The loop of _find_coverage from part k on, then the final return.
RECURSIVE Descend(_, _, _)
Descend(node, parts, k) ==
    IF k > Len(parts)
    THEN IF "coverage" \in DOMAIN node THEN Returned(node.coverage) ELSE RaisedKeyError
    ELSE IF "children" \notin DOMAIN node THEN RaisedKeyError
    ELSE IF parts[k] \notin DOMAIN node.children THEN ReturnedNone
    ELSE Descend(node.children[parts[k]], parts, k + 1)

_find_coverage(rep, p) == Descend(rep, Parts(p), 1)

InitFind ==
    /\ report \in Reports
    /\ path \in SeqsUpTo(PathChars, MaxPathLen)
    /\ found = ReturnedNone
    /\ fpc = "start"
    /\ MapIdle
    /\ GenIdle

\* self._find_coverage(report, path)
FindCoverage ==
    /\ fpc = "start"
    /\ found' = _find_coverage(report, path)
    /\ fpc' = "done"
    /\ UNCHANGED << report, path, mapVars, genVars >>

NextFind == FindCoverage

SpecFind == InitFind /\ [][NextFind]_vars

----------------------------------------------------------------------------
(* parse_revision_id                                                        *)

\* A commit message is a sequence of tokens: DiffRev is the literal text
\* "Differential Revision: https://phabricator.services.mozilla.com/D" of
\* PHABRICATOR_REVISION_REGEX, a digit is itself, "t" is any other text.
DiffRev == "Differential Revision: https://phabricator.services.mozilla.com/D"

Digits == {"0", "1", "2", "3", "4", "5", "6", "7", "8", "9"}

DigitValue(d) ==
    CASE d = "0" -> 0 [] d = "1" -> 1 [] d = "2" -> 2 [] d = "3" -> 3 [] d = "4" -> 4
      [] d = "5" -> 5 [] d = "6" -> 6 [] d = "7" -> 7 [] d = "8" -> 8 [] d = "9" -> 9

\* Where PHABRICATOR_REVISION_REGEX matches: the literal, then a digit.
MatchesAt(desc, k) ==
    /\ desc[k] = DiffRev
    /\ k + 1 <= Len(desc)
    /\ desc[k + 1] \in Digits

\* int() of the longest run of digits from position k on, after acc.
RECURSIVE IntFrom(_, _, _)
IntFrom(desc, k, acc) ==
    IF k <= Len(desc) /\ desc[k] \in Digits
    THEN IntFrom(desc, k + 1, 10 * acc + DigitValue(desc[k]))
    ELSE acc

\* The None of parse_revision_id (int() of digits is never negative).
NoRevisionId == -1

\* re.search takes the leftmost match; group 2 is its digits.
parse_revision_id(desc) ==
    IF \A k \in 1..Len(desc) : ~MatchesAt(desc, k) THEN NoRevisionId
    ELSE LET k == CHOOSE x \in 1..Len(desc) :
                      MatchesAt(desc, x) /\ \A y \in 1..(x - 1) : ~MatchesAt(desc, y)
         IN  IntFrom(desc, k + 1, 0)

----------------------------------------------------------------------------
(* generate                                                                 *)

\* self.revision: the changeset of the build.
revision == "r2"

\* The paths changesets touch: two files of ReportA, a file that is not in
\* it, and its directory "d".
PathF == << "f" >>
PathG == << "d", "/", "g" >>
PathT == << "t" >>
PathD == << "d" >>

\* The paths hgmo_server is asked about.
AnnotatedPaths == {PathF, PathG}

FileLists == { << PathF >>, << PathT, PathF >>, << PathF, PathG >>, << PathG, PathD >> }

Descs == { << "t", DiffRev, "7" >>, << "t" >>, << DiffRev, "t", DiffRev, "1", "2", DiffRev, "3" >> }

Changesets(node) == [node : {node}, desc : Descs, files : FileLists]

\* The stacks of changesets given to generate: r1, r2, or r1 then r2.
Stacks ==
    {<< c >> : c \in Changesets("r1") \cup Changesets("r2")}
        \cup {<< c, d >> : c \in Changesets("r1"), d \in Changesets("r2")}

Line(lineno, node, targetline) == [lineno |-> lineno, node |-> node, targetline |-> targetline]

\* What get_annotate answers: None, or the annotate data of the file.
NoAnnotate == [tag |-> "None", data |-> << >>]

Annotated(a) == [tag |-> "annotate", data |-> a]

\* A file of three lines, all introduced by r1.
AnnotateOld == << Line(1, "r1", 1), Line(2, "r1", 2), Line(3, "r1", 3) >>

\* The same file after r2 inserted a line after line 1 and appended one.
AnnotateInserted ==
    << Line(1, "r1", 1), Line(2, "r2", 2), Line(3, "r1", 2), Line(4, "r1", 3), Line(5, "r2", 5) >>

\* Annotate data that leaves lines out: its line numbers exceed its length.
AnnotateSparse == << Line(2, "r2", 2), Line(4, "r1", 1), Line(1, "r1", 4) >>

HgAnswers == {NoAnnotate, Annotated(AnnotateOld), Annotated(AnnotateInserted), Annotated(AnnotateSparse)}

\* The list taken from "targetline" instead of "lineno".
LinesAddedByTargetline(a, node) ==
    LET Mine(line) == line.node = node
        mine == SelectSeq(a, Mine)
    IN  [k \in 1..Len(mine) |-> mine[k].targetline - 1]

\* lines_added = [line["lineno"] - 1 for line in annotate if line["node"] == changeset["node"]]
LinesAdded(a, node) ==
    LET Mine(line) == line.node = node
        mine == SelectSeq(a, Mine)
    IN  [k \in 1..Len(mine) |-> mine[k].lineno - 1]

\* sum(coverage[line] <op> symbol for line in lines_added if line < len(coverage)),
\* with equal TRUE for == and FALSE for !=.
CountLines(lines_added, coverage, symbol, equal) ==
    Cardinality({k \in 1..Len(lines_added) :
        /\ lines_added[k] < Len(coverage)
        /\ (PyIndex(coverage, lines_added[k]) = symbol) = equal})

\* The dict with lines_added counting == "N" for != "N".
PathEntryAddedCountsN(lines_added, coverage) ==
    [ lines_added |-> CountLines(lines_added, coverage, "N", TRUE),
      lines_unknown |-> CountLines(lines_added, coverage, "X", TRUE),
      lines_covered |-> CountLines(lines_added, coverage, "C", TRUE),
      coverage |-> coverage ]

\* The dict stored for a path.
PathEntry(lines_added, coverage) ==
    [ lines_added |-> CountLines(lines_added, coverage, "N", FALSE),
      lines_unknown |-> CountLines(lines_added, coverage, "X", TRUE),
      lines_covered |-> CountLines(lines_added, coverage, "C", TRUE),
      coverage |-> coverage ]

InitGen ==
    /\ report = ReportA
    /\ changesets \in Stacks
    /\ hgmo_server \in [Nodes \X AnnotatedPaths -> HgAnswers]
    /\ results = EmptyDict
    /\ ci = 0
    /\ fi = 0
    /\ looked = {}
    /\ pc = "changesets"
    /\ MapIdle
    /\ FindIdle

Idle == UNCHANGED << report, mapVars, findVars >>

\* The changeset and the file the loops are at.
changeset == changesets[ci]

file == changeset.files[fi + 1]

\* The loop without the test of revision_id.
SkipsNoChangeset(desc) == FALSE

\* revision_id = parse_revision_id(changeset["desc"]); if revision_id is None: continue

SkipsChangeset(desc) == parse_revision_id(desc) = NoRevisionId

SkipChangeset ==
    /\ pc = "changesets"
    /\ ci < Len(changesets)
    /\ SkipsChangeset(changesets[ci + 1].desc)
    /\ ci' = ci + 1
    /\ UNCHANGED << changesets, hgmo_server, results, fi, looked, pc >>
    /\ Idle

\* results[changeset["node"]] = {"revision_id": revision_id, "paths": {}}
BeginChangeset ==
    /\ pc = "changesets"
    /\ ci < Len(changesets)
    /\ ~SkipsChangeset(changesets[ci + 1].desc)
    /\ ci' = ci + 1
    /\ fi' = 0
    /\ results' = DictSet(results, changesets[ci + 1].node,
                          [revision_id |-> parse_revision_id(changesets[ci + 1].desc),
                           paths |-> EmptyDict])
    /\ pc' = "files"
    /\ UNCHANGED << changesets, hgmo_server, looked >>
    /\ Idle

\* The loop over changeset["files"] is exhausted.
EndChangeset ==
    /\ pc = "files"
    /\ fi = Len(changeset.files)
    /\ pc' = "changesets"
    /\ UNCHANGED << changesets, hgmo_server, results, ci, fi, looked >>
    /\ Idle

\* The iteration of the loop over the files that is about to run.
AtFile == pc = "files" /\ fi < Len(changeset.files)

Look == looked' = looked \cup {ci}

\* report["children"] or report["coverage"] raises KeyError in _find_coverage.
FindRaises ==
    /\ AtFile
    /\ _find_coverage(report, file) = RaisedKeyError
    /\ Look
    /\ pc' = "failed"
    /\ UNCHANGED << changesets, hgmo_server, results, ci, fi >>
    /\ Idle

\* if coverage_record is None: continue
NotInReport ==
    /\ AtFile
    /\ _find_coverage(report, file) = ReturnedNone
    /\ Look
    /\ fi' = fi + 1
    /\ UNCHANGED << changesets, hgmo_server, results, ci, pc >>
    /\ Idle

\* The file has a coverage record.
HasCoverage == AtFile /\ _find_coverage(report, file).tag = "coverage"

coverage_record_of_file == _find_coverage(report, file).value

build_annotate == hgmo_server[<< revision, file >>]

\* The loop without the assertion on build_annotate.
BuildFailsNever(b, record) == FALSE

\* if build_annotate is None: assert False; also coverage_record[lineno]
\* raising in _build_coverage_map.

BuildFails(b, record) == b = NoAnnotate \/ BuildRaises(b.data, record)

BuildAnnotateMissing ==
    /\ HasCoverage
    /\ BuildFails(build_annotate, coverage_record_of_file)
    /\ Look
    /\ pc' = "failed"
    /\ UNCHANGED << changesets, hgmo_server, results, ci, fi >>
    /\ Idle

\* The loop without the test of annotate.
TargetPresentAlways(a) == FALSE

\* annotate = hgmo_server.get_annotate(changeset["node"], path)
\* if annotate is None: continue

TargetMissing(a) == a = NoAnnotate

TargetAnnotateMissing ==
    /\ HasCoverage
    /\ ~BuildFails(build_annotate, coverage_record_of_file)
    /\ TargetMissing(hgmo_server[<< changeset.node, file >>])
    /\ Look
    /\ fi' = fi + 1
    /\ UNCHANGED << changesets, hgmo_server, results, ci, pc >>
    /\ Idle

\* results[changeset["node"]]["paths"][path] = {...}
RecordPath ==
    /\ HasCoverage
    /\ ~BuildFails(build_annotate, coverage_record_of_file)
    /\ ~TargetMissing(hgmo_server[<< changeset.node, file >>])
    /\ LET target == hgmo_server[<< changeset.node, file >>].data
           cmap == _build_coverage_map(build_annotate.data, coverage_record_of_file)
           lines_added == LinesAdded(target, changeset.node)
           coverage == _apply_coverage_map(target, cmap)
           entry == PathEntry(lines_added, coverage)
       IN  results' = [results EXCEPT ![changeset.node].paths = DictSet(@, file, entry)]
    /\ Look
    /\ fi' = fi + 1
    /\ UNCHANGED << changesets, hgmo_server, ci, pc >>
    /\ Idle

\* return results
Return ==
    /\ pc = "changesets"
    /\ ci = Len(changesets)
    /\ pc' = "done"
    /\ UNCHANGED << changesets, hgmo_server, results, ci, fi, looked >>
    /\ Idle

Next ==
    \/ SkipChangeset
    \/ BeginChangeset
    \/ EndChangeset
    \/ FindRaises
    \/ NotInReport
    \/ BuildAnnotateMissing
    \/ TargetAnnotateMissing
    \/ RecordPath
    \/ Return

Spec == InitGen /\ [][Next]_vars

----------------------------------------------------------------------------
(* Properties of the map functions                                         *)

\* C1: every symbol _apply_coverage_map returns is decided by the lookup of
\* the line's (node, targetline) in the coverage map: X when the key is
\* absent (so all X for an empty map), N for -1, C for a positive count, U
\* for 0 and for the other negative counts; the k-th symbol is the one of
\* the k-th line of the annotate data.
C1_ApplyClassifies ==
    mpc \in {"same", "other"} =>
        /\ DOMAIN phab_coverage_data = DOMAIN annotate
        /\ \A k \in DOMAIN annotate :
            LET key == << annotate[k].node, annotate[k].targetline >>
                sym == phab_coverage_data[k]
            IN  /\ key \notin DOMAIN coverage_map => sym = "X"
                /\ key \in DOMAIN coverage_map =>
                    /\ coverage_map[key] = -1 => sym = "N"
                    /\ coverage_map[key] > 0 => sym = "C"
                    /\ (coverage_map[key] = 0 \/ coverage_map[key] < -1) => sym = "U"

C1_Witness ==
    /\ mpc = "other"
    /\ \E k \in DOMAIN annotate :
        /\ << annotate[k].node, annotate[k].targetline >> \in DOMAIN coverage_map
        /\ coverage_map[<< annotate[k].node, annotate[k].targetline >>] < -1
        /\ phab_coverage_data[k] = "U"
    /\ \E k \in DOMAIN annotate :
        /\ << annotate[k].node, annotate[k].targetline >> \notin DOMAIN coverage_map
        /\ phab_coverage_data[k] = "X"

\* C2: applying the map built from the build changeset's annotate data to
\* that same annotate data gives, for every line whose index lineno - 1 is
\* within the coverage record, the symbol of the raw count at that index
\* (N for -1, C for a positive count, U otherwise), which is never X.
C2_IdentityMapping ==
    mpc = "same" =>
        \A k \in DOMAIN annotate :
            LET lineno == annotate[k].lineno - 1
            IN  (0 <= lineno /\ lineno < Len(coverage_record)) =>
                    /\ k \in DOMAIN phab_coverage_data
                    /\ phab_coverage_data[k] # "X"
                    /\ phab_coverage_data[k] =
                          (IF coverage_record[lineno + 1] = -1 THEN "N"
                           ELSE IF coverage_record[lineno + 1] > 0 THEN "C" ELSE "U")

C2_Witness ==
    /\ mpc = "same"
    /\ Len(annotate) = 2
    /\ \E k \in DOMAIN annotate :
        /\ annotate[k].lineno <= Len(coverage_record)
        /\ annotate[k].targetline # annotate[k].lineno
        /\ phab_coverage_data[k] = "N"
    /\ \E k \in DOMAIN annotate : annotate[k].lineno > Len(coverage_record)

\* C5: _build_coverage_map never raises; every line whose index lineno - 1 is
\* within the coverage record has coverage_map[(node, targetline)] equal to
\* the raw count at that index, and every key of the map comes from such a
\* line: a line outside the record is dropped.
C5_BuildDropsOutOfBounds ==
    /\ mpc # "IndexError"
    /\ mpc = "built" =>
        /\ \A k \in DOMAIN annotate :
            LET lineno == annotate[k].lineno - 1
                key == << annotate[k].node, annotate[k].targetline >>
            IN  (0 <= lineno /\ lineno < Len(coverage_record)) =>
                    key \in DOMAIN coverage_map /\ coverage_map[key] = coverage_record[lineno + 1]
        /\ \A key \in DOMAIN coverage_map :
            \E k \in DOMAIN annotate :
                /\ key = << annotate[k].node, annotate[k].targetline >>
                /\ 0 <= annotate[k].lineno - 1
                /\ annotate[k].lineno - 1 < Len(coverage_record)

C5_Witness ==
    /\ mpc = "built"
    /\ coverage_record # << >>
    /\ \E k \in DOMAIN annotate : annotate[k].lineno > Len(coverage_record)
    /\ \E k \in DOMAIN annotate : annotate[k].lineno <= Len(coverage_record)
    /\ Cardinality(DOMAIN coverage_map) = 1

\* C9: the string _apply_coverage_map returns has one symbol per line of the
\* annotate data it was given, each of them N, C, U or X, whatever the map.
C9_LengthInvariant ==
    mpc \in {"same", "other"} =>
        /\ Len(phab_coverage_data) = Len(annotate)
        /\ \A k \in 1..Len(phab_coverage_data) : phab_coverage_data[k] \in {"N", "C", "U", "X"}

C9_Witness ==
    /\ mpc = "other"
    /\ Len(annotate) = 2
    /\ coverage_map # EmptyDict
    /\ \E k \in DOMAIN annotate : phab_coverage_data[k] = "X"
    /\ \E k \in DOMAIN annotate : phab_coverage_data[k] # "X"

\* Whether some segment from part k on is absent among the children of the
\* node reached so far (a node without children has none).
RECURSIVE SegmentAbsent(_, _, _)
SegmentAbsent(node, parts, k) ==
    /\ k <= Len(parts)
    /\ LET kids == IF "children" \in DOMAIN node THEN node.children ELSE EmptyDict
       IN  parts[k] \notin DOMAIN kids \/ SegmentAbsent(kids[parts[k]], parts, k + 1)

\* C8: _find_coverage never fails: for any report and any path (the empty
\* path, the path of a directory and a path that goes on below a file
\* included) its outcome is the coverage of the node reached or None, and
\* None exactly when some segment is absent among the children of the node
\* reached so far.
C8_FindNeverFails ==
    fpc = "done" =>
        /\ found.tag \in {"coverage", "None"}
        /\ found.tag = "None" <=> SegmentAbsent(report, Parts(path), 1)

----------------------------------------------------------------------------
(* Properties of generate                                                   *)

\* Whether file j of changeset i has a coverage record in the report.
InReport(i, j) == _find_coverage(report, changesets[i].files[j]).tag = "coverage"

\* Whether changeset i carries a revision id.
HasId(i) == parse_revision_id(changesets[i].desc) # NoRevisionId

\* The files of changeset i the loop has gone past.
Passed(i, j) == i < ci \/ (i = ci /\ (pc \in {"changesets", "done"} \/ j <= fi))

\* C3: a file of a changeset with a revision id that has a coverage record
\* but no annotate data at the build changeset makes generate fail: the loop
\* never goes past it and generate never returns a result, whether or not
\* the annotate data of the changeset itself exists.
C3_BuildAnnotateAbsentIsFatal ==
    \A i \in 1..Len(changesets) : \A j \in 1..Len(changesets[i].files) :
        (/\ HasId(i)
         /\ InReport(i, j)
         /\ hgmo_server[<< revision, changesets[i].files[j] >>] = NoAnnotate)
            => ~Passed(i, j) /\ pc # "done"

C3_Witness ==
    /\ pc = "failed"
    /\ ci = 1
    /\ fi = 1
    /\ changeset.node # revision
    /\ DOMAIN results[changeset.node].paths # {}
    /\ InReport(ci, fi + 1)
    /\ hgmo_server[<< revision, file >>] = NoAnnotate
    /\ hgmo_server[<< changeset.node, file >>] # NoAnnotate

\* C4: the counts recorded for a path of a changeset are taken over the
\* indices lineno - 1 of the lines of the changeset's annotate data that the
\* changeset introduced, as far as they lie within the coverage string:
\* lines_added counts the symbols other than N there, lines_unknown the X,
\* lines_covered the C.
C4_CountsOverAddedLines ==
    \A n \in DOMAIN results : \A p \in DOMAIN results[n].paths :
        LET entry == results[n].paths[p]
            target == hgmo_server[<< n, p >>].data
            added == {target[k].lineno - 1 : k \in {x \in 1..Len(target) : target[x].node = n}}
            within == {x \in added : 0 <= x /\ x < Len(entry.coverage)}
        IN  /\ entry.lines_added = Cardinality({x \in within : entry.coverage[x + 1] # "N"})
            /\ entry.lines_unknown = Cardinality({x \in within : entry.coverage[x + 1] = "X"})
            /\ entry.lines_covered = Cardinality({x \in within : entry.coverage[x + 1] = "C"})

C4_Witness ==
    /\ pc = "done"
    /\ \E n \in DOMAIN results : \E p \in DOMAIN results[n].paths :
        /\ results[n].paths[p].lines_added = 1
        /\ results[n].paths[p].lines_unknown = 1
        /\ results[n].paths[p].lines_covered = 0
        /\ \E k \in 1..Len(hgmo_server[<< n, p >>].data) :
            /\ hgmo_server[<< n, p >>].data[k].node = n
            /\ hgmo_server[<< n, p >>].data[k].lineno > Len(results[n].paths[p].coverage)
    /\ \E n \in DOMAIN results : \E p \in DOMAIN results[n].paths :
        /\ results[n].paths[p].lines_added = 2
        /\ results[n].paths[p].lines_covered = 1

\* What generate has recorded when it returns, and what makes it fail.
C6_Recorded ==
    /\ pc = "done" =>
        \A i \in 1..Len(changesets) :
            HasId(i) =>
                DOMAIN results[changesets[i].node].paths =
                    {changesets[i].files[j] : j \in {x \in 1..Len(changesets[i].files) :
                        /\ InReport(i, x)
                        /\ hgmo_server[<< changesets[i].node, changesets[i].files[x] >>] # NoAnnotate}}
    /\ pc = "failed" =>
        /\ _find_coverage(report, file) # ReturnedNone
        /\ InReport(ci, fi + 1) =>
              (hgmo_server[<< revision, file >>] = NoAnnotate
                  \/ BuildRaises(hgmo_server[<< revision, file >>].data, coverage_record_of_file))

\* A step keeps every entry recorded before it.
C6_EntriesKept ==
    \A n \in DOMAIN results :
        /\ n \in DOMAIN results'
        /\ \A p \in DOMAIN results[n].paths :
            /\ p \in DOMAIN results'[n].paths
            /\ results'[n].paths[p] = results[n].paths[p]

\* C6: when generate returns, the paths recorded for a changeset with a
\* revision id are exactly its files that have a coverage record in the
\* report and annotate data at the changeset; a file that is not in the
\* report or has no annotate data at the changeset never makes generate
\* fail, and no step changes an entry recorded before.
C6_SkippedPathsLeaveNoEntry == [](C6_Recorded) /\ [][C6_EntriesKept]_vars

C6_Witness ==
    /\ pc = "done"
    /\ Len(changesets) = 2
    /\ HasId(1) /\ HasId(2)
    /\ changesets[1].files = << PathF, PathG >>
    /\ hgmo_server[<< "r1", PathF >>] # NoAnnotate
    /\ hgmo_server[<< "r1", PathG >>] = NoAnnotate
    /\ DOMAIN results["r1"].paths = {PathF}
    /\ changesets[2].files = << PathT, PathF >>
    /\ DOMAIN results["r2"].paths = {PathF}

\* C7: a changeset whose description holds no revision id is skipped: none
\* of its files is looked up, so it never makes generate fail, and it has no
\* entry when generate returns; a changeset with a revision id has an entry
\* then, with the integer parsed from the description as revision_id.
C7_NoRevisionIdIsSkipped ==
    /\ \A i \in 1..Len(changesets) : ~HasId(i) => i \notin looked
    /\ pc = "failed" => HasId(ci)
    /\ pc = "done" =>
        \A i \in 1..Len(changesets) :
            /\ ~HasId(i) => changesets[i].node \notin DOMAIN results
            /\ HasId(i) =>
                /\ changesets[i].node \in DOMAIN results
                /\ results[changesets[i].node].revision_id = parse_revision_id(changesets[i].desc)
                /\ changesets[i].desc = << "t", DiffRev, "7" >>
                      => results[changesets[i].node].revision_id = 7
                /\ changesets[i].desc = << DiffRev, "t", DiffRev, "1", "2", DiffRev, "3" >>
                      => results[changesets[i].node].revision_id = 12

C7_Witness ==
    /\ pc = "done"
    /\ Len(changesets) = 2
    /\ changesets[1].desc = << "t" >>
    /\ changesets[1].files = << PathG, PathD >>
    /\ hgmo_server[<< revision, PathG >>] = NoAnnotate
    /\ DOMAIN results = {"r2"}
    /\ results["r2"].revision_id = 12
    /\ looked = {2}

\* C10: in every recorded entry the three counts are not negative,
\* lines_covered + lines_unknown is at most lines_added, and lines_added is
\* at most the number of lines of the changeset's annotate data that the
\* changeset introduced.
C10_CountInvariant ==
    \A n \in DOMAIN results : \A p \in DOMAIN results[n].paths :
        LET entry == results[n].paths[p]
            target == hgmo_server[<< n, p >>].data
        IN  /\ entry.lines_added >= 0 /\ entry.lines_unknown >= 0 /\ entry.lines_covered >= 0
            /\ entry.lines_covered + entry.lines_unknown <= entry.lines_added
            /\ entry.lines_added <= Cardinality({k \in 1..Len(target) : target[k].node = n})

C10_Witness ==
    \E n \in DOMAIN results : \E p \in DOMAIN results[n].paths :
        /\ results[n].paths[p].lines_covered = 1
        /\ results[n].paths[p].lines_unknown = 1
        /\ results[n].paths[p].lines_added = 2
        /\ \E k \in 1..Len(results[n].paths[p].coverage) : results[n].paths[p].coverage[k] = "N"

====
